---- MODULE Spec2Model ----
(***************************************************************************)
(* Waiting-queue routes (backend/routes/queue.py) and the document-store   *)
(* accessors (backend/mongo.py) of the restaurant management backend.      *)
(*                                                                         *)
(* Spec      : the queue routes, one request at a time.                    *)
(* SpecPatch : the same, one group and every kind of PATCH payload.        *)
(* SpecValidate : the same, one group and every kind of rejected payload.  *)
(* SpecConc  : the queue routes run by two request threads, every database *)
(*             round trip of a handler a separate step.                    *)
(* SpecMongo : the collection accessors and their index creation.          *)
(* SpecClient : get_db and an accessor called by two request threads.      *)
(***************************************************************************)
EXTENDS Integers, Sequences, FiniteSets, TLC

VARIABLES
    entries,    \* the QueueEntry table: a set of rows
    clock,      \* datetime.utcnow(), in ticks; one tick per row constructed
    request,    \* the last request handled: handler, path id, query argument, payload
    resp,       \* the response to it
    run,        \* history: the joins with unstored ids into one group since it was empty
    before,     \* history: the table as the last request found it
    threads,    \* SpecConc: each request thread's place in its handler and its locals
    _client,    \* mongo.py: the module's client, 0 for None
    constructed,\* the MongoClient objects constructed so far
    indexes,    \* the indexes of each collection in the document store
    call,       \* the accessor call in progress and the create_index call it is at
    returned,   \* history: how often each accessor has returned
    first,      \* history: each collection's indexes when its accessor first returned
    outcome,    \* history: the last accessor call, whether a create_index of it raised,
                \* and the collection handle its caller received
    getters,    \* SpecClient: each request thread's place in a mongo.py call and its locals
    used        \* history: the clients that get_db has handed to its callers

qvars == <<request, resp, run, before>>

tvars == <<getters, used>>

mvars == <<_client, constructed, indexes, call, returned, first, outcome, tvars>>

vars ==
    <<entries, clock, request, resp, run, before, threads, _client, constructed, indexes, call,
      returned, first, outcome, getters, used>>

(***************************************************************************)
(* Bounds.                                                                 *)
(***************************************************************************)
\* rows constructed in one behaviour (successful joins)
MaxClock == 3
\* required keys one join payload may lack
MaxDrop == 2

(***************************************************************************)
(* JSON values of a payload, and the Python conversions the handlers apply *)
(* to them.                                                                *)
(***************************************************************************)
Absent == [kind |-> "absent", b |-> FALSE, n |-> 0, s |-> ""]
JBool(b) == [kind |-> "bool", b |-> b, n |-> 0, s |-> ""]
JNum(n) == [kind |-> "num", b |-> FALSE, n |-> n, s |-> ""]
JStr(s) == [kind |-> "str", b |-> FALSE, n |-> 0, s |-> s]

Digit == <<"0", "1", "2", "3", "4", "5", "6", "7", "8", "9">>

RECURSIVE ToDecimal(_)
ToDecimal(n) ==
    IF n < 10 THEN Digit[n + 1] ELSE ToDecimal(n \div 10) \o Digit[(n % 10) + 1]

\* the integers whose numerals int() is asked to parse in this model
Parsable == 0 .. 9

\* str(v)
PyStr(v) ==
    CASE v.kind = "str" -> v.s
      [] v.kind = "num" -> ToDecimal(v.n)
      [] v.kind = "bool" -> IF v.b THEN "True" ELSE "False"

\* int(v) raises ValueError on a string that is no numeral
IntRaises(v) == v.kind = "str" /\ \A n \in Parsable : ToDecimal(n) # v.s

\* int(v)
PyInt(v) ==
    CASE v.kind = "num" -> v.n
      [] v.kind = "bool" -> IF v.b THEN 1 ELSE 0
      [] v.kind = "str" -> CHOOSE n \in Parsable : ToDecimal(n) = v.s

\* bool(v); an absent key has the caller's default False
PyBool(v) ==
    CASE v.kind = "bool" -> v.b
      [] v.kind = "num" -> v.n # 0
      [] v.kind = "str" -> v.s # ""
      [] v.kind = "absent" -> FALSE

\* float(v) of a value that passed isinstance(v, (int, float))
PyFloat(v) == IF v.kind = "bool" THEN (IF v.b THEN 1 ELSE 0) ELSE v.n

\* isinstance(v, bool)
IsBool(v) == v.kind = "bool"

\* isinstance(v, (int, float)): bool is a subclass of int
IsIntOrFloat(v) == v.kind \in {"num", "bool"}

(***************************************************************************)
(* The strings of the model in ascending order of the database's string   *)
(* comparison, for ORDER BY.                                               *)
(***************************************************************************)
StringOrder ==
    <<"", "2024-05-01", "2024-05-02", "2024-05-03", "A", "B", "dinner", "lunch">>

StrIndex(s) == CHOOSE i \in 1 .. Len(StringOrder) : StringOrder[i] = s

StrLess(a, b) == StrIndex(a) < StrIndex(b)

(***************************************************************************)
(* Inputs.                                                                 *)
(***************************************************************************)
IdInputs == {JStr("a"), JStr("b"), JNum(7)}

\* the ids a path can name: the stored ones and one that is never stored
PathIds == {"a", "b", "7", "zz"}

\* (queueDate, guests, hall, segment) of a payload: a base group and groups
\* differing from it or from one another in a single field
BaseGroup == <<JStr("2024-05-01"), JNum(2), JStr("A"), JStr("dinner")>>

GroupInputs ==
    { <<JStr("2024-05-01"), JNum(2), JStr("A"), JStr("dinner")>>,
      <<JStr("2024-05-01"), JStr("4"), JStr("A"), JStr("dinner")>>,
      <<JStr("2024-05-01"), JNum(2), JStr("B"), JStr("dinner")>>,
      <<JStr("2024-05-02"), JNum(2), JStr("B"), JStr("dinner")>>,
      <<JStr("2024-05-01"), JNum(2), JStr("A"), JStr("lunch")>> }

\* a guests value int() rejects
BadGuestsGroup == <<JStr("2024-05-01"), JStr("many"), JStr("A"), JStr("dinner")>>

\* mutant: hall and segment checked in the other order
required_segment_first ==
    <<"id", "name", "guests", "notificationMethod", "contact", "segment", "hall",
      "queueDate">>

required ==
    <<"id", "name", "guests", "notificationMethod", "contact", "hall", "segment",
      "queueDate">>

RequiredKeys == {required[i] : i \in 1 .. Len(required)}

\* a payload is a JSON object: the value of every key it has, Absent for the rest
Keys == RequiredKeys \cup {"notifiedAt5Min", "estimatedWaitMinutes"}

NoData == [k \in Keys |-> Absent]

FullPayload(i, g, f) ==
    [NoData EXCEPT !["id"] = i, !["name"] = JStr("Ann"), !["guests"] = g[2],
                   !["notificationMethod"] = JStr("sms"), !["contact"] = JStr("555"),
                   !["hall"] = g[3], !["segment"] = g[4], !["queueDate"] = g[1],
                   !["notifiedAt5Min"] = f]

PatchPayload(f, w) == [NoData EXCEPT !["notifiedAt5Min"] = f, !["estimatedWaitMinutes"] = w]

Without(data, drop) == [k \in DOMAIN data |-> IF k \in drop THEN Absent ELSE data[k]]

Drops == {d \in SUBSET RequiredKeys : Cardinality(d) <= MaxDrop}

\* the payloads with every required key, and one of them with keys left out (a
\* request that lacks a key is answered before any value is read)
FullPayloads(ids, groups, flags) ==
    {FullPayload(i, g, f) : i \in ids, g \in groups, f \in flags}

LackingPayloads ==
    {Without(FullPayload(JStr("a"), BaseGroup, Absent), d) : d \in Drops \ {{}}}

\* Spec: every group, one payload that lacks a key, PATCH of one stored id
JoinInputs ==
    FullPayloads(IdInputs, GroupInputs, {Absent})
        \cup {Without(FullPayload(JStr("a"), BaseGroup, Absent), {"hall"})}

PatchIds == {"a", "zz"}

PatchInputs == {PatchPayload(JBool(TRUE), JNum(45))}

\* SpecPatch: one group, two ids, PATCH of every id with every kind of payload
OneGroupJoinInputs ==
    FullPayloads({JStr("a"), JNum(7)}, {BaseGroup}, {Absent})
        \cup {Without(FullPayload(JStr("a"), BaseGroup, Absent), {"hall"})}

AllPatchInputs ==
    {PatchPayload(f, Absent) : f \in {Absent, JBool(TRUE), JBool(FALSE), JStr("yes")}}
        \cup {PatchPayload(Absent, w) : w \in {JNum(45), JBool(TRUE), JStr("soon")}}
        \cup {PatchPayload(JBool(TRUE), JNum(45))}

\* SpecValidate: one group, every payload that lacks up to MaxDrop required
\* keys, and one whose guests is no number
LackingJoinInputs ==
    FullPayloads({JStr("a"), JNum(7)}, {BaseGroup}, {Absent, JBool(TRUE), JStr("")})
        \cup {FullPayload(JStr("a"), BadGuestsGroup, Absent)}
        \cup LackingPayloads

\* Spec: no filter and one date; the other specifications: the empty filter too
DateArgs == {Absent, JStr("2024-05-01")}

OneDateArgs == {Absent, JStr(""), JStr("2024-05-01")}

(***************************************************************************)
(* Responses.                                                              *)
(***************************************************************************)
json_response(body, status) == [status |-> status, body |-> body]

ErrorBody(e) == [kind |-> "error", error |-> e, rows |-> <<>>]
EntryBody(row) == [kind |-> "entry", error |-> "", rows |-> <<row>>]
EntriesBody(rows) == [kind |-> "entries", error |-> "", rows |-> rows]
OkBody == [kind |-> "ok", error |-> "", rows |-> <<>>]

\* an exception that leaves the handler: the framework answers 500
InternalServerError == [status |-> 500, body |-> [kind |-> "exception", error |-> "", rows |-> <<>>]]

isoformat(t) == [iso |-> t]

serialize_entry(e) ==
    [id |-> e.id, name |-> e.name, guests |-> e.guests,
     notificationMethod |-> e.notification_method, contact |-> e.contact,
     hall |-> e.hall, segment |-> e.segment, position |-> e.position,
     estimatedWaitMinutes |-> e.estimated_wait_minutes,
     joinedAt |-> isoformat(e.joined_at), queueDate |-> e.queue_date,
     notifiedAt5Min |-> e.notified_at_5_min]

(***************************************************************************)
(* The table.                                                              *)
(***************************************************************************)
\* QueueEntry.query.get(entry_id): the rows with that primary key
Get(entry_id) == {e \in entries : e.id = entry_id}

\* mutant: the hall left out of the filter
InGroup_any_hall(e, queue_date, guests, hall, segment) ==
    /\ e.queue_date = queue_date
    /\ e.guests = guests
    /\ e.segment = segment

InGroup(e, queue_date, guests, hall, segment) ==
    /\ e.queue_date = queue_date
    /\ e.guests = guests
    /\ e.hall = hall
    /\ e.segment = segment

GroupRows(rows, queue_date, guests, hall, segment) ==
    {e \in rows : InGroup(e, queue_date, guests, hall, segment)}

\* mutant: the row added, a row of the same key kept
Merge_add(rows, entry) == rows \cup {entry}

\* mutant: the rows behind a replaced row in its group moved up by one
Merge_closing_gap(rows, entry) ==
    LET moved(e) ==
            \E o \in rows :
                /\ o.id = entry.id
                /\ InGroup(e, o.queue_date, o.guests, o.hall, o.segment)
                /\ e.position > o.position
    IN  {IF moved(e)
         THEN [e EXCEPT !.position = @ - 1, !.estimated_wait_minutes = (e.position - 1) * 60]
         ELSE e : e \in {x \in rows : x.id # entry.id}} \cup {entry}

\* db.session.merge(entry); commit: insert, or replace the row of the same key
Merge(rows, entry) == {e \in rows : e.id # entry.id} \cup {entry}

\* mutant: the count itself, without the + 1
_next_position_count(queue_date, guests, hall, segment) ==
    Cardinality(GroupRows(entries, queue_date, guests, hall, segment))

_next_position(queue_date, guests, hall, segment) ==
    Cardinality(GroupRows(entries, queue_date, guests, hall, segment)) + 1

\* mutant: newest first
Ordered_desc(S) ==
    {f \in [1 .. Cardinality(S) -> S] :
        /\ \A i, j \in DOMAIN f : i # j => f[i] # f[j]
        /\ \A i, j \in DOMAIN f : i < j => f[i].joined_at >= f[j].joined_at}

\* the orders .order_by(joined_at.asc()).all() can return the rows of a set in
Ordered(S) ==
    {f \in [1 .. Cardinality(S) -> S] :
        /\ \A i, j \in DOMAIN f : i # j => f[i] # f[j]
        /\ \A i, j \in DOMAIN f : i < j => f[i].joined_at <= f[j].joined_at}

\* mutant: the position rewritten, the estimate left as it was
Renumbered_position_only(row, idx) == [row EXCEPT !.position = idx]

\* mutant: a row is moved up only, never to a later position than it holds
Renumbered_moved_up_only(row, idx) ==
    IF row.position < idx
    THEN [row EXCEPT !.estimated_wait_minutes = row.position * 60]
    ELSE [row EXCEPT !.position = idx, !.estimated_wait_minutes = idx * 60]

\* mutant: a row already at its place is not written
Renumbered_if_moved(row, idx) ==
    IF row.position = idx
    THEN row
    ELSE [row EXCEPT !.position = idx, !.estimated_wait_minutes = idx * 60]

\* for idx, row in enumerate(rows, start=1): the row at place idx rewritten
Renumbered(row, idx) ==
    [row EXCEPT !.position = idx, !.estimated_wait_minutes = idx * 60]

\* the tables _resequence can leave, run on table `rows`
_resequence(rows, queue_date, guests, hall, segment) ==
    LET group == GroupRows(rows, queue_date, guests, hall, segment)
    IN  {(rows \ group) \cup {Renumbered(f[idx], idx) : idx \in DOMAIN f} :
            f \in Ordered(group)}

(***************************************************************************)
(* History: the ids joined, in order, into run.group by requests whose id  *)
(* was not stored, starting when that group was empty, with no request in  *)
(* between that changed the table.                                         *)
(***************************************************************************)
NoRun == [group |-> <<>>, ids |-> <<>>]

GroupOf(e) == <<e.queue_date, e.guests, e.hall, e.segment>>

RunAfter(old, new) ==
    IF new = old THEN run
    ELSE LET added == new \ old
         IN  IF /\ Cardinality(added) = 1
                /\ old \subseteq new
                /\ \A e \in added : Get(e.id) = {}
             THEN LET e == CHOOSE x \in added : TRUE
                  IN  IF run.ids # <<>> /\ run.group = GroupOf(e)
                      THEN [run EXCEPT !.ids = Append(run.ids, e.id)]
                      ELSE IF GroupRows(old, e.queue_date, e.guests, e.hall, e.segment) = {}
                           THEN [group |-> GroupOf(e), ids |-> <<e.id>>]
                           ELSE NoRun
             ELSE NoRun

(***************************************************************************)
(* The handlers, one request at a time.                                    *)
(***************************************************************************)
Min(S) == CHOOSE x \in S : \A y \in S : x <= y

\* the row join_queue constructs from a payload that has every required key
NewEntry(data, position, now) ==
    [id |-> PyStr(data["id"]),
     name |-> PyStr(data["name"]),
     guests |-> PyInt(data["guests"]),
     notification_method |-> PyStr(data["notificationMethod"]),
     contact |-> PyStr(data["contact"]),
     hall |-> PyStr(data["hall"]),
     segment |-> PyStr(data["segment"]),
     position |-> position,
     estimated_wait_minutes |-> position * 60,
     joined_at |-> now,
     queue_date |-> PyStr(data["queueDate"]),
     notified_at_5_min |-> PyBool(data["notifiedAt5Min"])]

MissingKeys(data) == {i \in 1 .. Len(required) : data[required[i]].kind = "absent"}

join_queue(data) ==
    IF MissingKeys(data) # {}
    THEN /\ resp' = json_response(ErrorBody(required[Min(MissingKeys(data))] \o "_required"), 400)
         /\ UNCHANGED <<entries, clock>>
    ELSE IF IntRaises(data["guests"])
    THEN /\ resp' = InternalServerError
         /\ UNCHANGED <<entries, clock>>
    ELSE LET position == _next_position(PyStr(data["queueDate"]), PyInt(data["guests"]),
                                        PyStr(data["hall"]), PyStr(data["segment"]))
             entry == NewEntry(data, position, clock + 1)
         IN  /\ clock < MaxClock
             /\ clock' = clock + 1
             /\ entries' = Merge(entries, entry)
             /\ resp' = json_response(EntryBody(serialize_entry(entry)), 201)

\* mutant: the groups of the table resequenced also when the id is not stored
cancel_queue_always_resequences(entry_id) ==
    /\ UNCHANGED clock
    /\ IF Get(entry_id) = {}
       THEN /\ resp' = json_response(ErrorBody("not_found"), 404)
            /\ \/ UNCHANGED entries
               \/ \E e \in entries :
                     entries' \in _resequence(entries, e.queue_date, e.guests, e.hall, e.segment)
       ELSE \E entry \in Get(entry_id) :
                /\ entries' \in _resequence(entries \ {entry}, entry.queue_date, entry.guests,
                                            entry.hall, entry.segment)
                /\ resp' = json_response(OkBody, 200)

cancel_queue(entry_id) ==
    /\ UNCHANGED clock
    /\ IF Get(entry_id) = {}
       THEN /\ resp' = json_response(ErrorBody("not_found"), 404)
            /\ UNCHANGED entries
       ELSE \E entry \in Get(entry_id) :
                /\ entries' \in _resequence(entries \ {entry}, entry.queue_date, entry.guests,
                                            entry.hall, entry.segment)
                /\ resp' = json_response(OkBody, 200)

\* the row update_queue_entry leaves for `entry` under payload `data`
Patched(entry, data) ==
    LET flagged == IF IsBool(data.notifiedAt5Min)
                   THEN [entry EXCEPT !.notified_at_5_min = data.notifiedAt5Min.b]
                   ELSE entry
    IN  IF IsIntOrFloat(data.estimatedWaitMinutes)
        THEN [flagged EXCEPT !.estimated_wait_minutes = PyFloat(data.estimatedWaitMinutes)]
        ELSE flagged

update_queue_entry(entry_id, data) ==
    /\ UNCHANGED clock
    /\ IF Get(entry_id) = {}
       THEN /\ resp' = json_response(ErrorBody("not_found"), 404)
            /\ UNCHANGED entries
       ELSE \E entry \in Get(entry_id) :
                /\ entries' = (entries \ {entry}) \cup {Patched(entry, data)}
                /\ resp' = json_response(EntryBody(serialize_entry(Patched(entry, data))), 200)

\* mutant: queue_date ascending
SortsBefore_date_asc(x, y) ==
    \/ StrLess(x.queue_date, y.queue_date)
    \/ /\ x.queue_date = y.queue_date
       /\ \/ StrLess(x.hall, y.hall)
          \/ /\ x.hall = y.hall
             /\ \/ StrLess(x.segment, y.segment)
                \/ /\ x.segment = y.segment
                   /\ x.position < y.position

\* a row sorts before another under
\* order_by(queue_date.desc(), hall.asc(), segment.asc(), position.asc())
SortsBefore(x, y) ==
    \/ StrLess(y.queue_date, x.queue_date)
    \/ /\ x.queue_date = y.queue_date
       /\ \/ StrLess(x.hall, y.hall)
          \/ /\ x.hall = y.hall
             /\ \/ StrLess(x.segment, y.segment)
                \/ /\ x.segment = y.segment
                   /\ x.position < y.position

\* the row sequences the ordered query can return for a set of rows
Sorted(S) ==
    {f \in [1 .. Cardinality(S) -> S] :
        /\ \A i, j \in DOMAIN f : i # j => f[i] # f[j]
        /\ \A i, j \in DOMAIN f : i < j => ~SortsBefore(f[j], f[i])}

\* the rows list_queue selects: `if date:` filters on a non-empty argument only
Selected(date) ==
    IF date.kind = "str" /\ date.s # ""
    THEN {e \in entries : e.queue_date = date.s}
    ELSE entries

list_queue(date) ==
    /\ UNCHANGED <<entries, clock>>
    /\ \E rows \in Sorted(Selected(date)) :
            resp' = json_response(EntriesBody([i \in DOMAIN rows |-> serialize_entry(rows[i])]), 200)

(***************************************************************************)
(* The handlers run by concurrent request threads: every database round    *)
(* trip of join_queue and cancel_queue is a step of its own.               *)
(***************************************************************************)
Threads == {1, 2}

\* a thread's locals, and as history the clock at its count query, the ids of
\* the rows that query counted, and the clock at its resequencing
IdleThread ==
    [pc |-> "idle", handler |-> "", data |-> NoData, position |-> 0, counted_at |-> 0,
     counted |-> {}, resequenced_at |-> 0, entry |-> <<>>, resp |-> json_response(OkBody, 0)]

Answered(handler, data, response) ==
    [IdleThread EXCEPT !.handler = handler, !.data = data, !.resp = response]

ConcJoinInputs ==
    FullPayloads(IdInputs, {BaseGroup}, {Absent})
        \cup {Without(FullPayload(JStr("a"), BaseGroup, Absent), {"hall"})}

ConcPathIds == PathIds

\* join_queue up to the count query
JoinCount(t, data) ==
    /\ threads[t].pc = "idle"
    /\ UNCHANGED <<entries, clock>>
    /\ IF MissingKeys(data) # {}
       THEN threads' = [threads EXCEPT ![t] = Answered("join_queue", data,
                json_response(ErrorBody(required[Min(MissingKeys(data))] \o "_required"), 400))]
       ELSE IF IntRaises(data["guests"])
       THEN threads' = [threads EXCEPT ![t] = Answered("join_queue", data, InternalServerError)]
       ELSE threads' = [threads EXCEPT ![t] =
                [IdleThread EXCEPT
                    !.pc = "join_insert", !.handler = "join_queue", !.data = data,
                    !.position = _next_position(PyStr(data["queueDate"]), PyInt(data["guests"]),
                                                PyStr(data["hall"]), PyStr(data["segment"])),
                    !.counted_at = clock,
                    !.counted = {e.id : e \in GroupRows(entries, PyStr(data["queueDate"]),
                                                        PyInt(data["guests"]), PyStr(data["hall"]),
                                                        PyStr(data["segment"]))}]]

\* mutant: the position counted again when the row is constructed
JoinEntry_recounted(t) ==
    LET data == threads[t].data
    IN  NewEntry(data, _next_position(PyStr(data["queueDate"]), PyInt(data["guests"]),
                                      PyStr(data["hall"]), PyStr(data["segment"])), clock + 1)

\* the row join_queue constructs from its locals
JoinEntry(t) == NewEntry(threads[t].data, threads[t].position, clock + 1)

\* mutant: the group resequenced after the insert
JoinInsert_then_resequence(t) ==
    /\ threads[t].pc = "join_insert"
    /\ clock < MaxClock
    /\ clock' = clock + 1
    /\ entries' \in _resequence(Merge(entries, JoinEntry(t)), JoinEntry(t).queue_date,
                                JoinEntry(t).guests, JoinEntry(t).hall, JoinEntry(t).segment)
    /\ threads' = [threads EXCEPT ![t] =
            [@ EXCEPT !.pc = "idle",
                      !.resp = json_response(EntryBody(serialize_entry(JoinEntry(t))), 201)]]

\* join_queue from the construction of the row to the response
JoinInsert(t) ==
    /\ threads[t].pc = "join_insert"
    /\ clock < MaxClock
    /\ clock' = clock + 1
    /\ entries' = Merge(entries, JoinEntry(t))
    /\ threads' = [threads EXCEPT ![t] =
            [@ EXCEPT !.pc = "idle",
                      !.resp = json_response(EntryBody(serialize_entry(JoinEntry(t))), 201)]]

\* cancel_queue up to the lookup
CancelGet(t, entry_id) ==
    /\ threads[t].pc = "idle"
    /\ UNCHANGED <<entries, clock>>
    /\ IF Get(entry_id) = {}
       THEN threads' = [threads EXCEPT ![t] =
                Answered("cancel_queue", NoData, json_response(ErrorBody("not_found"), 404))]
       ELSE \E entry \in Get(entry_id) :
                threads' = [threads EXCEPT ![t] =
                    [IdleThread EXCEPT !.pc = "cancel_delete", !.handler = "cancel_queue",
                                       !.entry = <<entry>>]]

\* db.session.delete(entry); commit: the row of that key, if another thread
\* has not removed it already, is deleted
CancelDelete(t) ==
    /\ threads[t].pc = "cancel_delete"
    /\ UNCHANGED clock
    /\ entries' = {e \in entries : e.id # threads[t].entry[1].id}
    /\ threads' = [threads EXCEPT ![t] = [@ EXCEPT !.pc = "cancel_resequence"]]

\* _resequence of the cancelled entry's group, and the response
CancelResequence(t) ==
    /\ threads[t].pc = "cancel_resequence"
    /\ UNCHANGED clock
    /\ LET entry == threads[t].entry[1]
       IN  entries' \in _resequence(entries, entry.queue_date, entry.guests, entry.hall,
                                    entry.segment)
    /\ threads' = [threads EXCEPT ![t] =
            [@ EXCEPT !.pc = "idle", !.resequenced_at = clock,
                      !.resp = json_response(OkBody, 200)]]

ThreadJoinCount ==
    \E t \in Threads, data \in ConcJoinInputs : JoinCount(t, data) /\ UNCHANGED <<qvars, mvars>>

ThreadJoinInsert == \E t \in Threads : JoinInsert(t) /\ UNCHANGED <<qvars, mvars>>

ThreadCancelGet ==
    \E t \in Threads, entry_id \in ConcPathIds :
        CancelGet(t, entry_id) /\ UNCHANGED <<qvars, mvars>>

ThreadCancelDelete == \E t \in Threads : CancelDelete(t) /\ UNCHANGED <<qvars, mvars>>

ThreadCancelResequence == \E t \in Threads : CancelResequence(t) /\ UNCHANGED <<qvars, mvars>>

NextConc ==
    \/ ThreadJoinCount
    \/ ThreadJoinInsert
    \/ ThreadCancelGet
    \/ ThreadCancelDelete
    \/ ThreadCancelResequence

(***************************************************************************)
(* mongo.py: the client and the collection accessors.                      *)
(***************************************************************************)
\* accessor calls in one behaviour
MaxCalls == 3

Index(key, unique) == [key |-> key, unique |-> unique]

\* the create_index calls of each accessor, in the order it makes them
Listed ==
    [users |-> <<Index("email", TRUE)>>,
     menu_items |-> <<Index("id", TRUE), Index("category", FALSE), Index("isVeg", FALSE)>>,
     feedback |-> <<Index("id", TRUE), Index("userId", FALSE), Index("orderId", FALSE),
                    Index("createdAt", FALSE)>>,
     orders |-> <<Index("id", TRUE), Index("userId", FALSE), Index("date", FALSE)>>,
     reservations |-> <<Index("reservationId", TRUE), Index("userId", FALSE),
                        Index("date", FALSE), Index("timeSlot", FALSE)>>,
     reservation_waiting_queue |-> <<Index("queueId", TRUE), Index("userId", FALSE),
                                     Index("date", FALSE), Index("timeSlot", FALSE)>>]

Collections == DOMAIN Listed

NoCall == [name |-> "", next |-> 0]

\* no accessor has been called
NoOutcome == [name |-> "", raised |-> FALSE, handle |-> ""]

RECURSIVE Total(_, _)
Total(f, S) ==
    IF S = {} THEN 0 ELSE LET c == CHOOSE x \in S : TRUE IN f[c] + Total(f, S \ {c})

\* if _client is None: _client = MongoClient(MONGO_URI)
_get_client ==
    /\ _client' = IF _client = 0 THEN constructed + 1 ELSE _client
    /\ constructed' = IF _client = 0 THEN constructed + 1 ELSE constructed

\* an accessor up to its try block: get_db() and db.get_collection(name)
AccessorCall(name) ==
    /\ call = NoCall
    /\ Total(returned, Collections) < MaxCalls
    /\ _get_client
    /\ call' = [name |-> name, next |-> 1]
    /\ outcome' = [name |-> name, raised |-> FALSE, handle |-> ""]
    /\ UNCHANGED <<indexes, returned, first, tvars>>

\* the create_index call the accessor is at succeeds: the index exists, and the
\* accessor goes on to its next statement
CreateIndexReturns ==
    /\ call # NoCall
    /\ call.next <= Len(Listed[call.name])
    /\ indexes' = [indexes EXCEPT ![call.name] = @ \cup {Listed[call.name][call.next]}]
    /\ call' = [call EXCEPT !.next = @ + 1]
    /\ UNCHANGED <<_client, constructed, returned, first, outcome, tvars>>

\* mutant: no except clause, the exception leaves the accessor
CreateIndexRaises_propagates(built) ==
    /\ call # NoCall
    /\ call.next <= Len(Listed[call.name])
    /\ indexes' = IF built
                  THEN [indexes EXCEPT ![call.name] = @ \cup {Listed[call.name][call.next]}]
                  ELSE indexes
    /\ call' = NoCall
    /\ outcome' = [outcome EXCEPT !.raised = TRUE]
    /\ UNCHANGED <<_client, constructed, returned, first, tvars>>

\* the create_index call raises, the index built or not: except Exception: pass
\* leaves the try block, and with it the create_index calls that follow
CreateIndexRaises(built) ==
    /\ call # NoCall
    /\ call.next <= Len(Listed[call.name])
    /\ indexes' = IF built
                  THEN [indexes EXCEPT ![call.name] = @ \cup {Listed[call.name][call.next]}]
                  ELSE indexes
    /\ call' = [call EXCEPT !.next = Len(Listed[call.name]) + 1]
    /\ outcome' = [outcome EXCEPT !.raised = TRUE]
    /\ UNCHANGED <<_client, constructed, returned, first, tvars>>

\* return <collection>
AccessorReturn ==
    /\ call # NoCall
    /\ call.next > Len(Listed[call.name])
    /\ returned' = [returned EXCEPT ![call.name] = @ + 1]
    /\ first' = IF returned[call.name] = 0
                THEN [first EXCEPT ![call.name] = indexes[call.name]]
                ELSE first
    /\ call' = NoCall
    /\ outcome' = [outcome EXCEPT !.handle = call.name]
    /\ UNCHANGED <<_client, constructed, indexes, tvars>>

Call == \E name \in Collections : AccessorCall(name) /\ UNCHANGED <<entries, clock, qvars, threads>>

IndexCreated == CreateIndexReturns /\ UNCHANGED <<entries, clock, qvars, threads>>

IndexRaised ==
    \E built \in BOOLEAN : CreateIndexRaises(built) /\ UNCHANGED <<entries, clock, qvars, threads>>

Return == AccessorReturn /\ UNCHANGED <<entries, clock, qvars, threads>>

NextMongo == Call \/ IndexCreated \/ IndexRaised \/ Return

(***************************************************************************)
(* mongo.py called by concurrent request threads: the test of _client, the *)
(* construction of the client and the return are steps of their own.       *)
(***************************************************************************)
\* a thread's place in its call, the function it called, and its locals: the
\* client it constructed and the client _get_client returned to it
IdleGetter == [pc |-> "idle", name |-> "", new |-> 0, client |-> 0]

\* the functions of mongo.py the threads call
Callers == {"get_db", "users"}

\* a thread calls get_db, directly or as the first statement of an accessor
GetterCall(t, name) ==
    /\ getters[t].pc = "idle"
    /\ getters' = [getters EXCEPT ![t] = [IdleGetter EXCEPT !.pc = "test", !.name = name]]
    /\ UNCHANGED <<_client, constructed, indexes, used>>

\* if _client is None
GetterTest(t) ==
    /\ getters[t].pc = "test"
    /\ getters' = [getters EXCEPT ![t] =
            [@ EXCEPT !.pc = IF _client = 0 THEN "construct" ELSE "return_client"]]
    /\ UNCHANGED <<_client, constructed, indexes, used>>

\* MongoClient(MONGO_URI)
GetterConstruct(t) ==
    /\ getters[t].pc = "construct"
    /\ constructed' = constructed + 1
    /\ getters' = [getters EXCEPT ![t] = [@ EXCEPT !.pc = "assign", !.new = constructed + 1]]
    /\ UNCHANGED <<_client, indexes, used>>

\* _client = <the client constructed>
GetterAssign(t) ==
    /\ getters[t].pc = "assign"
    /\ _client' = getters[t].new
    /\ getters' = [getters EXCEPT ![t] = [@ EXCEPT !.pc = "return_client"]]
    /\ UNCHANGED <<constructed, indexes, used>>

\* return _client, and get_db's return of the database of that client: the
\* call is over if it was to get_db, an accessor goes on to its try block
GetterReturnClient(t) ==
    /\ getters[t].pc = "return_client"
    /\ used' = used \cup {_client}
    /\ getters' = [getters EXCEPT ![t] =
            IF getters[t].name = "get_db"
            THEN [IdleGetter EXCEPT !.name = "get_db", !.client = _client]
            ELSE [@ EXCEPT !.pc = "create_index", !.client = _client]]
    /\ UNCHANGED <<_client, constructed, indexes>>

\* the accessor's create_index call, which returns or raises, the index built
\* or not, and the return of the collection
GetterCreateIndex(t, built) ==
    /\ getters[t].pc = "create_index"
    /\ indexes' = IF built
                  THEN [indexes EXCEPT ![getters[t].name] = @ \cup {Listed[getters[t].name][1]}]
                  ELSE indexes
    /\ getters' = [getters EXCEPT ![t] = [@ EXCEPT !.pc = "idle"]]
    /\ UNCHANGED <<_client, constructed, used>>

\* what a thread inside mongo.py leaves alone
ovars == <<entries, clock, qvars, threads, call, returned, first, outcome>>

ThreadCall == \E t \in Threads, name \in Callers : GetterCall(t, name) /\ UNCHANGED ovars

ThreadTest == \E t \in Threads : GetterTest(t) /\ UNCHANGED ovars

ThreadConstruct == \E t \in Threads : GetterConstruct(t) /\ UNCHANGED ovars

ThreadAssign == \E t \in Threads : GetterAssign(t) /\ UNCHANGED ovars

ThreadReturnClient == \E t \in Threads : GetterReturnClient(t) /\ UNCHANGED ovars

ThreadCreateIndex ==
    \E t \in Threads, built \in BOOLEAN : GetterCreateIndex(t, built) /\ UNCHANGED ovars

NextClient ==
    \/ ThreadCall
    \/ ThreadTest
    \/ ThreadConstruct
    \/ ThreadAssign
    \/ ThreadReturnClient
    \/ ThreadCreateIndex

(***************************************************************************)
(* The requests, one at a time, and the specifications.                    *)
(***************************************************************************)
Request(handler, entry_id, date, data) ==
    [handler |-> handler, entry_id |-> entry_id, date |-> date, data |-> data]

Join(inputs) ==
    \E data \in inputs :
        /\ join_queue(data)
        /\ request' = Request("join_queue", "", Absent, data)
        /\ run' = RunAfter(entries, entries')
        /\ before' = entries
        /\ UNCHANGED <<threads, mvars>>

Cancel ==
    \E entry_id \in PathIds :
        /\ cancel_queue(entry_id)
        /\ request' = Request("cancel_queue", entry_id, Absent, NoData)
        /\ run' = RunAfter(entries, entries')
        /\ before' = entries
        /\ UNCHANGED <<threads, mvars>>

Patch(ids, inputs) ==
    \E entry_id \in ids, data \in inputs :
        /\ update_queue_entry(entry_id, data)
        /\ request' = Request("update_queue_entry", entry_id, Absent, data)
        /\ run' = RunAfter(entries, entries')
        /\ before' = entries
        /\ UNCHANGED <<threads, mvars>>

List(dates) ==
    \E date \in dates :
        /\ list_queue(date)
        /\ request' = Request("list_queue", "", date, NoData)
        /\ run' = RunAfter(entries, entries')
        /\ before' = entries
        /\ UNCHANGED <<threads, mvars>>

Init ==
    /\ entries = {}
    /\ clock = 0
    /\ request = Request("", "", Absent, NoData)
    /\ resp = json_response(OkBody, 0)
    /\ run = NoRun
    /\ before = {}
    /\ threads = [t \in Threads |-> IdleThread]
    /\ _client = 0
    /\ constructed = 0
    /\ indexes = [c \in Collections |-> {}]
    /\ call = NoCall
    /\ returned = [c \in Collections |-> 0]
    /\ first = [c \in Collections |-> {}]
    /\ outcome = NoOutcome
    /\ getters = [t \in Threads |-> IdleGetter]
    /\ used = {}

Next == Join(JoinInputs) \/ Cancel \/ Patch(PatchIds, PatchInputs) \/ List(DateArgs)

Spec == Init /\ [][Next]_vars

NextPatch ==
    Join(OneGroupJoinInputs) \/ Cancel \/ Patch(PathIds, AllPatchInputs) \/ List(OneDateArgs)

SpecPatch == Init /\ [][NextPatch]_vars

NextValidate ==
    Join(LackingJoinInputs) \/ Cancel \/ Patch(PatchIds, PatchInputs) \/ List(OneDateArgs)

SpecValidate == Init /\ [][NextValidate]_vars

SpecConc == Init /\ [][NextConc]_vars

SpecMongo == Init /\ [][NextMongo]_vars

SpecClient == Init /\ [][NextClient]_vars

(***************************************************************************)
(* Properties.                                                             *)
(***************************************************************************)
RowsOf(rows, entry_id) == {e \in rows : e.id = entry_id}

GroupOfRow(rows, e) == GroupRows(rows, e.queue_date, e.guests, e.hall, e.segment)

\* the positions of a set of rows are exactly 1..N
Contiguous(G) ==
    /\ {x.position : x \in G} = 1 .. Cardinality(G)
    /\ \A x, y \in G : x.position = y.position => x = y

\* an earlier join time has a smaller position
InJoinOrder(G) == \A x, y \in G : x.joined_at < y.joined_at => x.position < y.position

\* C1: after any sequence of join, cancel and patch requests run one at a time
\* (joins may reuse a stored id), every group's positions are exactly 1..N and
\* ascend with the join time.
C1_GroupsContiguousInJoinOrder ==
    \A e \in entries : Contiguous(GroupOfRow(entries, e)) /\ InJoinOrder(GroupOfRow(entries, e))

\* the k-th id of the run is stored in the run's group at position k
C2_RunPositions ==
    \A k \in 1 .. Len(run.ids) :
        \E e \in entries : e.id = run.ids[k] /\ GroupOf(e) = run.group /\ e.position = k

\* the join that extends the run answers 201 with the entry it stored
C2_RunResponse ==
    (run'.ids # <<>> /\ run' # run) =>
        /\ resp'.status = 201
        /\ resp'.body.kind = "entry"
        /\ \E e \in entries' :
              /\ e.id = run'.ids[Len(run'.ids)]
              /\ e.position = Len(run'.ids)
              /\ resp'.body.rows = <<serialize_entry(e)>>

\* C2: N joins with distinct ids that are not stored, into one group that was
\* empty, one request at a time, give the k-th joined entry position k, and
\* each join returns 201 with that entry.
C2_FreshJoinsGetPositionsInOrder == [](C2_RunPositions) /\ [][C2_RunResponse]_vars

\* three joins into one group, the third just answered
C2_Witness ==
    /\ Len(run.ids) = 3
    /\ request.handler = "join_queue"
    /\ resp.status = 201
    /\ resp.body.rows[1].position = 3

\* what a cancel of `entry` leaves of its group G (positions 1..N before)
C3_Post(entry, G) ==
    LET after == GroupOfRow(entries', entry)
    IN  /\ RowsOf(entries', entry.id) = {}
        /\ {x.id : x \in after} = {x.id : x \in G \ {entry}}
        /\ Contiguous(after)
        /\ Cardinality(after) = Cardinality(G) - 1
        /\ \A x, y \in G \ {entry} : \A x2, y2 \in after :
              (x2.id = x.id /\ y2.id = y.id /\ x.position < y.position)
                  => x2.position < y2.position
        /\ \A x \in G \ {entry} : \A x2 \in after :
              x2.id = x.id => x2.joined_at = x.joined_at

\* C3: cancelling the entry at position k of a group that holds positions 1..N
\* removes it and leaves the other N-1 entries at positions 1..N-1 in the
\* relative order they had.
C3_CancelRenumbersGroup ==
    [][request'.handler = "cancel_queue" =>
          \A entry \in Get(request'.entry_id) :
              Contiguous(GroupOfRow(entries, entry))
                  => C3_Post(entry, GroupOfRow(entries, entry))]_vars

\* the entry joined second of three in the group of `a` was cancelled: `a` was
\* patched (flag set) and its estimate rewritten since
C3_Witness ==
    /\ clock = 3
    /\ request.handler = "cancel_queue"
    /\ resp.status = 200
    /\ Cardinality(entries) = 2
    /\ \E x, y \in entries :
          /\ x.joined_at = 1 /\ x.position = 1 /\ x.notified_at_5_min
          /\ x.estimated_wait_minutes = 60
          /\ y.joined_at = 3 /\ y.position = 2 /\ GroupOf(y) = GroupOf(x)

\* C4: in every reachable state every stored entry has estimatedWaitMinutes
\* equal to its position times 60.
C4_WaitIsSixtyTimesPosition ==
    \A e \in entries : e.estimated_wait_minutes = e.position * 60

\* C4 as amended: a stored entry's estimatedWaitMinutes differs from its
\* position times 60 only when a PATCH carrying a number or a boolean as
\* estimatedWaitMinutes set it, and neither its position nor its estimate was
\* written since.
C4_WaitIsSixtyTimesPositionUnlessPatched ==
    [][\A e \in entries' :
          \/ e.estimated_wait_minutes = e.position * 60
          \/ \E o \in entries :
                /\ o.id = e.id
                /\ o.position = e.position
                /\ o.estimated_wait_minutes = e.estimated_wait_minutes
          \/ /\ request'.handler = "update_queue_entry"
             /\ request'.entry_id = e.id
             /\ request'.data["estimatedWaitMinutes"].kind \in {"num", "bool"}]_vars

\* the first of two entries was cancelled and the second, which a PATCH had
\* flagged, was renumbered to position 1
C4_Witness ==
    /\ clock = 2
    /\ request.handler = "cancel_queue"
    /\ resp.status = 200
    /\ \E x \in entries :
          /\ entries = {x}
          /\ x.joined_at = 2 /\ x.position = 1 /\ x.estimated_wait_minutes = 60
          /\ x.notified_at_5_min

C5_Order ==
    <<"id", "name", "guests", "notificationMethod", "contact", "hall", "segment",
      "queueDate">>

\* C5: a join whose payload lacks a required key returns 400 with
\* "<field>_required" for the first missing key in the order id, name, guests,
\* notificationMethod, contact, hall, segment, queueDate, and stores nothing.
C5_MissingFieldRejected ==
    [][(/\ request'.handler = "join_queue"
        /\ \E i \in 1 .. Len(C5_Order) : request'.data[C5_Order[i]].kind = "absent")
          => /\ resp'.status = 400
             /\ \E i \in 1 .. Len(C5_Order) :
                   /\ request'.data[C5_Order[i]].kind = "absent"
                   /\ \A j \in 1 .. (i - 1) : request'.data[C5_Order[j]].kind # "absent"
                   /\ resp'.body.error = C5_Order[i] \o "_required"
             /\ entries' = entries]_vars

\* a payload lacking hall and segment, refused for hall, with entries stored
C5_Witness ==
    /\ request.handler = "join_queue"
    /\ request.data["hall"].kind = "absent"
    /\ request.data["segment"].kind = "absent"
    /\ resp.status = 400
    /\ resp.body.error = "hall_required"
    /\ Cardinality(entries) = 2

\* a serialized row may come before another in the listing
C6_MayPrecede(x, y) ==
    \/ StrLess(y.queueDate, x.queueDate)
    \/ /\ x.queueDate = y.queueDate
       /\ \/ StrLess(x.hall, y.hall)
          \/ /\ x.hall = y.hall
             /\ \/ StrLess(x.segment, y.segment)
                \/ /\ x.segment = y.segment
                   /\ x.position <= y.position

\* C6: listing with a non-empty queueDate filter returns exactly the stored
\* entries of that date, without a filter every stored entry, ordered by
\* queueDate descending, hall, segment and position ascending, and changes no
\* stored entry.
C6_ListFiltersAndOrders ==
    [][(request'.handler = "list_queue" /\ request'.date # JStr("")) =>
          LET rows == resp'.body.rows
              want == IF request'.date = Absent THEN entries
                      ELSE {e \in entries : e.queue_date = request'.date.s}
          IN  /\ resp'.status = 200
              /\ {rows[i] : i \in DOMAIN rows} = {serialize_entry(e) : e \in want}
              /\ Len(rows) = Cardinality(want)
              /\ \A i, j \in DOMAIN rows : i < j => C6_MayPrecede(rows[i], rows[j])
              /\ entries' = entries]_vars

\* a listing filtered by date that left out a stored entry of the other date
\* and put hall A before hall B although its segment sorts later
C6_Witness ==
    /\ request.handler = "list_queue"
    /\ request.date = JStr("2024-05-01")
    /\ Cardinality(entries) = 3
    /\ Len(resp.body.rows) = 2
    /\ resp.body.rows[1].hall = "A" /\ resp.body.rows[1].segment = "lunch"
    /\ resp.body.rows[2].hall = "B" /\ resp.body.rows[2].segment = "dinner"

\* C7: a DELETE or PATCH naming an id that is not stored returns 404
\* "not_found", resequences nothing and leaves every stored entry as it was.
C7_UnknownIdNotFound ==
    [][(/\ request'.handler \in {"cancel_queue", "update_queue_entry"}
        /\ Get(request'.entry_id) = {})
          => /\ resp'.status = 404
             /\ resp'.body.error = "not_found"
             /\ entries' = entries]_vars

\* a DELETE answered 404 in a state whose only entry of a group is at
\* position 2, which a resequencing would have rewritten
C7_Witness ==
    /\ request.handler = "cancel_queue"
    /\ resp.status = 404
    /\ \E e \in entries : e.position = 2 /\ GroupOfRow(entries, e) = {e}

\* C8: a PATCH on a stored entry changes at most that entry's notifiedAt5Min,
\* and only when the payload's notifiedAt5Min is a boolean, and its
\* estimatedWaitMinutes, and only when the payload's estimatedWaitMinutes is
\* numeric; everything else of the entry and every other entry is unchanged.
C8_PatchChangesOnlyFlagAndEstimate ==
    [][request'.handler = "update_queue_entry" =>
          \A entry \in Get(request'.entry_id) :
              \E new \in entries' :
                  /\ entries' = (entries \ {entry}) \cup {new}
                  /\ [new EXCEPT !.notified_at_5_min = entry.notified_at_5_min,
                                 !.estimated_wait_minutes = entry.estimated_wait_minutes] = entry
                  /\ new.notified_at_5_min # entry.notified_at_5_min
                        => request'.data["notifiedAt5Min"].kind = "bool"
                  /\ new.estimated_wait_minutes # entry.estimated_wait_minutes
                        => request'.data["estimatedWaitMinutes"].kind = "num"]_vars

\* the id and the group a thread's join payload names
C9_Id(t) == PyStr(threads[t].data["id"])

C9_Group(t) ==
    <<PyStr(threads[t].data["queueDate"]), PyInt(threads[t].data["guests"]),
      PyStr(threads[t].data["hall"]), PyStr(threads[t].data["segment"])>>

C9_Joined(t) ==
    threads[t].pc = "idle" /\ threads[t].handler = "join_queue" /\ threads[t].resp.status = 201

\* two completed joins of distinct ids into one group whose count queries both
\* ran before either row was inserted, and counted the same
C9_Raced(t1, t2) ==
    /\ t1 # t2
    /\ C9_Joined(t1) /\ C9_Joined(t2)
    /\ C9_Id(t1) # C9_Id(t2)
    /\ C9_Group(t1) = C9_Group(t2)
    /\ threads[t1].position = threads[t2].position
    /\ \A t \in {t1, t2}, u \in {t1, t2} :
          threads[t].counted_at < threads[u].resp.body.rows[1].joinedAt.iso

\* C9: two concurrent joins with distinct ids for one group, each count query
\* and insert a separate step: when both counts ran before either insert, both
\* entries are stored with the same position (C9_Witness: such an interleaving
\* exists).
C9_RacingJoinsShareAPosition ==
    \A t1, t2 \in Threads :
        C9_Raced(t1, t2) =>
            \E r1, r2 \in entries :
                /\ r1.id = C9_Id(t1) /\ r2.id = C9_Id(t2)
                /\ GroupOf(r1) = C9_Group(t1) /\ GroupOf(r2) = C9_Group(t2)
                /\ r1.position = threads[t1].position
                /\ r2.position = r1.position

C9_Witness ==
    /\ C9_Raced(1, 2)
    /\ \E r1, r2 \in entries :
          r1.id # r2.id /\ GroupOf(r1) = GroupOf(r2) /\ r1.position = r2.position

\* C10: once a collection accessor has returned for the first time, every
\* index listed for its collection exists, also when an index-creation call
\* raised, and further calls leave the collection's indexes as they were after
\* the first.
C10_IndexesCompleteAfterFirstCall ==
    \A c \in Collections :
        returned[c] >= 1 =>
            /\ \A i \in 1 .. Len(Listed[c]) : Listed[c][i] \in indexes[c]
            /\ indexes[c] = first[c]


\* C11: a collection accessor never propagates an exception raised by index
\* creation: whichever of its create_index calls raised, once the call is over
\* its caller holds the collection handle.
C11_RaisingIndexStillReturnsHandle ==
    (call = NoCall /\ outcome.raised) => outcome.handle = outcome.name

\* get_waiting_queue_collection returned its handle although its third
\* create_index raised and built nothing
C11_Witness ==
    /\ call = NoCall
    /\ outcome = [name |-> "reservation_waiting_queue", raised |-> TRUE,
                  handle |-> "reservation_waiting_queue"]
    /\ indexes["reservation_waiting_queue"] = {Index("queueId", TRUE), Index("userId", FALSE)}

\* C12: whatever positions the entries of a group hold (duplicates and gaps
\* included), when a cancel of an entry of the group completes with no other
\* request in flight, the N entries that remain of the group hold positions
\* exactly 1..N, ascending with the join time.
C12_CancelRestoresPositions ==
    [][\A t \in Threads :
          (/\ threads[t].pc = "cancel_resequence"
           /\ threads'[t].pc = "idle"
           /\ \A u \in Threads \ {t} : threads[u].pc = "idle")
              => LET entry == threads[t].entry[1]
                     after == GroupOfRow(entries', entry)
                 IN  /\ threads'[t].resp.status = 200
                     /\ {x.id : x \in after} = {x.id : x \in GroupOfRow(entries, entry)}
                     /\ Contiguous(after)
                     /\ InJoinOrder(after)]_vars

\* the cancel of `b`, read at position 3, has completed and left `a` at 1 and
\* `7` at 2, while the join of `7`, the last request of the other thread, had
\* stored `7` at position 1 although `a` had joined before it
C12_Witness ==
    /\ threads[1].pc = "idle" /\ threads[1].handler = "cancel_queue"
    /\ threads[1].resp.status = 200
    /\ threads[1].entry[1].id = "b" /\ threads[1].entry[1].position = 3
    /\ C9_Joined(2)
    /\ threads[2].resp.body.rows[1].id = "7"
    /\ threads[2].resp.body.rows[1].position = 1
    /\ threads[2].resp.body.rows[1].joinedAt.iso = 2
    /\ \E x, y \in entries :
          /\ entries = {x, y}
          /\ x.id = "a" /\ x.joined_at = 1 /\ x.position = 1
          /\ y.id = "7" /\ y.joined_at = 2 /\ y.position = 2

\* C13: a successful cancel removes exactly the entry with the given id and
\* modifies only entries of the cancelled entry's (queueDate, guests, hall,
\* segment): entries of other groups are left as they were, and no entry
\* changes a field other than position and estimatedWaitMinutes.
C13_CancelChangesOnlyItsGroup ==
    [][(request'.handler = "cancel_queue" /\ resp'.status = 200) =>
          \A entry \in Get(request'.entry_id) :
              /\ {x.id : x \in entries'} = {x.id : x \in entries} \ {entry.id}
              /\ Cardinality(entries') = Cardinality(entries) - 1
              /\ \A x \in entries \ {entry} :
                    \E y \in entries' :
                        /\ [y EXCEPT !.position = x.position,
                                     !.estimated_wait_minutes = x.estimated_wait_minutes] = x
                        /\ GroupOf(x) # GroupOf(entry) => y = x]_vars

\* `b` was cancelled: `a`, of its group, flagged and with an overridden
\* estimate, moved from position 2 to 1 and kept its flag and join time, and
\* `7`, in the other hall, is as it was
C13_Witness ==
    /\ request.handler = "cancel_queue" /\ request.entry_id = "b"
    /\ resp.status = 200
    /\ Cardinality(entries) = 2
    /\ \E x \in before, y \in entries :
          /\ x.id = "a" /\ x.position = 2 /\ x.estimated_wait_minutes = 45
          /\ x.notified_at_5_min
          /\ y.id = "a" /\ y.position = 1 /\ y.estimated_wait_minutes = 60
          /\ y.notified_at_5_min /\ y.joined_at = x.joined_at
    /\ \E z \in entries \cap before :
          /\ z.id = "7" /\ z.hall = "B"
          /\ \E w \in before : w.id = "b" /\ w.hall = "A" /\ z.segment = w.segment

C14_Cancelled(t) ==
    threads[t].pc = "idle" /\ threads[t].handler = "cancel_queue" /\ threads[t].resp.status = 200

\* a join by t1 and a cancel by t2 in one group have both completed: the
\* join's count query counted the cancelled entry, its insert came after the
\* cancel's resequencing, and the group now holds the entries counted, less
\* the cancelled one, and the joined one
C14_Raced(t1, t2) ==
    /\ t1 # t2
    /\ C9_Joined(t1) /\ C14_Cancelled(t2)
    /\ GroupOf(threads[t2].entry[1]) = C9_Group(t1)
    /\ threads[t2].entry[1].id \in threads[t1].counted
    /\ threads[t2].resequenced_at < threads[t1].resp.body.rows[1].joinedAt.iso
    /\ LET g == C9_Group(t1)
       IN  {e.id : e \in GroupRows(entries, g[1], g[2], g[3], g[4])}
               = (threads[t1].counted \ {threads[t2].entry[1].id}) \cup {C9_Id(t1)}

\* C14: a join and a cancel for one group run concurrently, count, insert,
\* delete and resequence separate steps: when the count is taken before the
\* delete and the insert follows the resequencing, both requests complete and
\* the group's positions are not 1..N, the joined entry holding the position
\* it counted (C14_Witness: such an interleaving exists).
C14_JoinRacingCancelLeavesGap ==
    \A t1, t2 \in Threads :
        C14_Raced(t1, t2) =>
            LET g == C9_Group(t1)
                group == GroupRows(entries, g[1], g[2], g[3], g[4])
            IN  /\ ~Contiguous(group)
                /\ \E r \in group :
                      /\ r.id = C9_Id(t1)
                      /\ r.position = Cardinality(threads[t1].counted) + 1
                      /\ r.position > Cardinality(group)

\* `7` joined, counting `a` and `b`, while `a` was cancelled: `b` is at
\* position 1 and `7` at position 3
C14_Witness ==
    /\ C14_Raced(1, 2)
    /\ threads[1].counted = {"a", "b"}
    /\ threads[2].entry[1].id = "a"
    /\ \E x, y \in entries :
          /\ entries = {x, y}
          /\ x.id = "b" /\ x.position = 1
          /\ y.id = "7" /\ y.position = 3 /\ GroupOf(y) = GroupOf(x)

\* no two stored entries share an id
C15_IdsUnique == \A x, y \in entries : x.id = y.id => x = y

\* a join whose id is stored leaves as many entries as there were, and under
\* that id the entry of the new request: its group and flag from the payload,
\* a join time later than any stored, and the position it answers
C15_RejoinReplaces ==
    (/\ request'.handler = "join_queue"
     /\ resp'.status = 201
     /\ Get(PyStr(request'.data["id"])) # {})
        => /\ Cardinality(entries') = Cardinality(entries)
           /\ \E n \in entries' :
                 /\ RowsOf(entries', PyStr(request'.data["id"])) = {n}
                 /\ GroupOf(n) = <<PyStr(request'.data["queueDate"]),
                                   PyInt(request'.data["guests"]),
                                   PyStr(request'.data["hall"]),
                                   PyStr(request'.data["segment"])>>
                 /\ n.notified_at_5_min = PyBool(request'.data["notifiedAt5Min"])
                 /\ \A o \in entries : o.joined_at < n.joined_at
                 /\ resp'.body.rows = <<serialize_entry(n)>>
                 /\ n.estimated_wait_minutes = n.position * 60

\* C15: after any sequence of join, cancel and patch requests run one at a
\* time no two stored entries share an id: a join whose id is stored replaces
\* that entry's group, position, join time and flag by the new request's and
\* does not add an entry.
C15_OneEntryPerId == [](C15_IdsUnique) /\ [][C15_RejoinReplaces]_vars

\* `a`, stored flagged and with an overridden estimate in hall A, joined again
\* into the hall of `b`: it is stored once, unflagged, at position 2 there
C15_Witness ==
    /\ request.handler = "join_queue" /\ resp.status = 201
    /\ Cardinality(entries) = 2 /\ Cardinality(before) = 2
    /\ \E o \in before, n \in entries, x \in entries \cap before :
          /\ o.id = "a" /\ n.id = "a" /\ x.id = "b"
          /\ o.hall = "A" /\ o.notified_at_5_min /\ o.estimated_wait_minutes = 45
          /\ n.hall = "B" /\ ~n.notified_at_5_min /\ n.position = 2
          /\ n.joined_at > o.joined_at
          /\ GroupOf(n) = GroupOf(x)

\* C16: a successful join creates or modifies only the entry whose id is the
\* payload's: every stored entry with another id, in the same group or not,
\* is left as it was, position, estimatedWaitMinutes, flag and join time
\* included.
C16_JoinChangesOnlyItsEntry ==
    [][(request'.handler = "join_queue" /\ resp'.status = 201) =>
          LET id == PyStr(request'.data["id"])
          IN  /\ {x \in entries' : x.id # id} = {x \in entries : x.id # id}
              /\ RowsOf(entries', id) # {}]_vars

\* `a`, first of its group, joined again into another hall: `b`, which was
\* behind it, is as it was, alone in its group at position 2
C16_Witness ==
    /\ request.handler = "join_queue" /\ resp.status = 201
    /\ PyStr(request.data["id"]) = "a"
    /\ \E o \in before, n \in entries, x \in entries \cap before :
          /\ o.id = "a" /\ o.position = 1 /\ o.hall = "A"
          /\ n.id = "a" /\ n.hall = "B" /\ n.position = 1
          /\ x.id = "b" /\ x.position = 2 /\ GroupOf(x) = GroupOf(o)
          /\ entries = {n, x}

\* C17: after a successful cancel every remaining entry of the cancelled
\* entry's group has estimatedWaitMinutes equal to 60 times its new position,
\* entries whose estimate an earlier PATCH had overridden included: the
\* override does not survive the cancel.
C17_CancelResetsEstimates ==
    [][(request'.handler = "cancel_queue" /\ resp'.status = 200) =>
          \A entry \in Get(request'.entry_id) :
              /\ \A y \in GroupOfRow(entries', entry) :
                    y.estimated_wait_minutes = y.position * 60
              /\ \A x \in GroupOfRow(entries, entry) \ {entry} :
                    \E y \in GroupOfRow(entries', entry) : y.id = x.id]_vars

\* `7` was cancelled from behind `a`, whose estimate a PATCH had set to 45:
\* `a` is still at position 1 and its estimate is 60
C17_Witness ==
    /\ request.handler = "cancel_queue" /\ request.entry_id = "7"
    /\ resp.status = 200
    /\ \E x, z \in before, y \in entries :
          /\ before = {x, z} /\ entries = {y}
          /\ GroupOf(x) = GroupOf(z)
          /\ x.id = "a" /\ x.position = 1 /\ x.estimated_wait_minutes = 45
          /\ z.id = "7" /\ z.position = 2
          /\ y.id = "a" /\ y.position = 1 /\ y.estimated_wait_minutes = 60

\* C18: across any number of calls to get_db and the collection accessors,
\* from concurrent request threads too, the client is constructed at most
\* once and every call uses that one client.
C18_OneClient == constructed <= 1 /\ Cardinality(used) <= 1

====
